---- MODULE Spec2Model ----
(***************************************************************************)
(* Model of the go-repository-pattern example: the User entity, the        *)
(* UserRepository contract, its in-memory implementation                   *)
(* (MockUserRepository), its relational implementation                     *)
(* (PostgresUserRepository) and the UserService that delegates to          *)
(* whichever implementation it was constructed with.                       *)
(*                                                                         *)
(* Go pointers are modelled explicitly: `heap` holds the User objects the  *)
(* caller has allocated, a reference is an index into it, and the          *)
(* in-memory store maps ids to references (map[int]*User), so that         *)
(* aliasing between the caller and the store is visible.                   *)
(***************************************************************************)
EXTENDS Integers, Sequences, FiniteSets, TLC

\* ---------------------------------------------------------------- bounds
MaxRefs == 2
MaxID == 1
MaxSeq == 2

\* ---------------------------------------------------------------- values
IDs == 0..MaxID
Names == {"John Doe", "Jane Doe"}
Emails == {"john.doe@example.com"}

\* the nil error and the nil *User
Nil == "<nil>"
NilRef == 0
\* a pointer to an object allocated by the callee (var user User; return &user)
FreshRef == -1

\* the zero value of User, standing for "no User" behind a nil pointer
NoUser == [ID |-> 0, Name |-> "", Email |-> ""]

\* errors.New("user not found") of both implementations
ErrNotFound == "user not found"
\* database/sql's sentinel for a query that yields no row
ErrNoRows == "sql: no rows in result set"
\* errors a test injects through MockUserRepository.Err
InjErrs == {"injected error E1", "injected error E2"}
\* outcomes of one round trip to the relational store
DBFailures == {"pq: connection refused"}
DBOutcomes == {"ok"} \cup DBFailures

\* which implementation the program constructed
Impls == {"mock", "postgres"}

VARIABLES
    Repo,   \* UserService.Repo: the implementation behind the contract
    heap,   \* the caller's User objects; a *User is an index
    Users,  \* MockUserRepository.Users: id -> *User
    Err,    \* MockUserRepository.Err
    rows,   \* the users table: id -> [Name, Email]
    seq,    \* the next value of the table's id sequence
    last    \* the last call of the contract: arguments, state before, result

vars == <<Repo, heap, Users, Err, rows, seq, last>>

\* the empty map
EmptyMap == [x \in {} |-> 0]

\* the program's data state as one value
World == [heap |-> heap, Users |-> Users, Err |-> Err, rows |-> rows, seq |-> seq]

EmptyWorld == [heap |-> <<>>, Users |-> EmptyMap, Err |-> Nil, rows |-> EmptyMap, seq |-> 1]

\* m[k] = v
MapPut(m, k, v) == (k :> v) @@ m

\* (*User, error) results
RetNil(e) == [ref |-> NilRef, user |-> NoUser, err |-> e]
RetUser(r, u) == [ref |-> r, user |-> u, err |-> Nil]

\* ------------------------------------------------- in-memory repository

\* a lookup that forgets the `exists` test (nil user, nil error when absent)
MockFind_NoExistsCheck(w, id) ==
    [w |-> w, stmts |-> 0,
     ret |-> IF w.Err # Nil THEN RetNil(w.Err)
             ELSE IF id \notin DOMAIN w.Users THEN RetNil(Nil)
             ELSE RetUser(w.Users[id], w.heap[w.Users[id]])]

\* a lookup that consults the map before the injected error
MockFind_LookupFirst(w, id) ==
    [w |-> w, stmts |-> 0,
     ret |-> IF id \notin DOMAIN w.Users THEN RetNil(ErrNotFound)
             ELSE IF w.Err # Nil THEN RetNil(w.Err)
             ELSE RetUser(w.Users[id], w.heap[w.Users[id]])]

MockUserRepository_FindUserByID(w, id) ==
    [w |-> w, stmts |-> 0,
     ret |-> IF w.Err # Nil THEN RetNil(w.Err)
             ELSE IF id \notin DOMAIN w.Users THEN RetNil(ErrNotFound)
             ELSE RetUser(w.Users[id], w.heap[w.Users[id]])]

\* a save that reports success without storing
MockSave_NoStore(w, ref) ==
    [w |-> w, stmts |-> 0, ret |-> RetNil(w.Err)]

\* a save that stores before it tests the injected error
MockSave_StoreFirst(w, ref) ==
    [w |-> [w EXCEPT !.Users = MapPut(w.Users, w.heap[ref].ID, ref)],
     stmts |-> 0, ret |-> RetNil(w.Err)]

\* a save that replaces the whole map by the one entry
MockSave_ReplaceMap(w, ref) ==
    IF w.Err # Nil THEN [w |-> w, stmts |-> 0, ret |-> RetNil(w.Err)]
    ELSE [w |-> [w EXCEPT !.Users = MapPut(EmptyMap, w.heap[ref].ID, ref)],
          stmts |-> 0, ret |-> RetNil(Nil)]

MockUserRepository_SaveUser(w, ref) ==
    IF w.Err # Nil THEN [w |-> w, stmts |-> 0, ret |-> RetNil(w.Err)]
    ELSE [w |-> [w EXCEPT !.Users = MapPut(w.Users, w.heap[ref].ID, ref)],
          stmts |-> 0, ret |-> RetNil(Nil)]

\* ------------------------------------------------- relational repository

\* SELECT id, name, email FROM users WHERE id = $1, then Row.Scan
DBSelect(w, id, out) ==
    IF out # "ok" THEN [err |-> out, user |-> NoUser]
    ELSE IF id \notin DOMAIN w.rows THEN [err |-> ErrNoRows, user |-> NoUser]
    ELSE [err |-> Nil,
          user |-> [ID |-> id, Name |-> w.rows[id].Name, Email |-> w.rows[id].Email]]

\* INSERT INTO users (name, email) VALUES ($1, $2) RETURNING id
DBInsert(w, name, email, out) ==
    IF out # "ok" THEN [err |-> out, id |-> 0, rows |-> w.rows, seq |-> w.seq]
    ELSE [err |-> Nil, id |-> w.seq,
          rows |-> MapPut(w.rows, w.seq, [Name |-> name, Email |-> email]),
          seq |-> w.seq + 1]

\* a lookup that returns the driver's error without mapping "no rows"
PgFind_NoMapping(w, id, out) ==
    LET q == DBSelect(w, id, out) IN
    [w |-> w, stmts |-> 1,
     ret |-> IF q.err # Nil THEN RetNil(q.err) ELSE RetUser(FreshRef, q.user)]

PostgresUserRepository_FindUserByID(w, id, out) ==
    LET q == DBSelect(w, id, out) IN
    [w |-> w, stmts |-> 1,
     ret |-> IF q.err # Nil
             THEN IF q.err = ErrNoRows THEN RetNil(ErrNotFound) ELSE RetNil(q.err)
             ELSE RetUser(FreshRef, q.user)]

\* a save that drops the returned id instead of scanning it into user.ID
PgSave_NoWriteBack(w, ref, out) ==
    LET q == DBInsert(w, w.heap[ref].Name, w.heap[ref].Email, out) IN
    [w |-> [w EXCEPT !.rows = q.rows, !.seq = q.seq],
     stmts |-> 1, ret |-> RetNil(q.err)]

\* a save that retries once after a failure
PgSave_Retry(w, ref, out) ==
    LET q1 == DBInsert(w, w.heap[ref].Name, w.heap[ref].Email, out)
        q  == IF q1.err = Nil THEN q1
              ELSE DBInsert(w, w.heap[ref].Name, w.heap[ref].Email, "ok") IN
    [w |-> [w EXCEPT !.rows = q.rows, !.seq = q.seq, !.heap[ref].ID = q.id],
     stmts |-> IF q1.err = Nil THEN 1 ELSE 2, ret |-> RetNil(q.err)]

PostgresUserRepository_SaveUser(w, ref, out) ==
    LET q == DBInsert(w, w.heap[ref].Name, w.heap[ref].Email, out) IN
    IF q.err # Nil THEN [w |-> w, stmts |-> 1, ret |-> RetNil(q.err)]
    ELSE [w |-> [w EXCEPT !.rows = q.rows, !.seq = q.seq, !.heap[ref].ID = q.id],
          stmts |-> 1, ret |-> RetNil(Nil)]

\* ------------------------------------------------- contract and service

\* dynamic dispatch through the UserRepository interface
UserRepository_FindUserByID(repo, w, id, out) ==
    IF repo = "mock" THEN MockUserRepository_FindUserByID(w, id)
    ELSE PostgresUserRepository_FindUserByID(w, id, out)

UserRepository_SaveUser(repo, w, ref, out) ==
    IF repo = "mock" THEN MockUserRepository_SaveUser(w, ref)
    ELSE PostgresUserRepository_SaveUser(w, ref, out)

\* a service that validates the id itself before asking the repository
GetUser_Validating(repo, w, id, out) ==
    IF id = 0 THEN [w |-> w, stmts |-> 0, ret |-> RetNil(ErrNotFound)]
    ELSE UserRepository_FindUserByID(repo, w, id, out)

UserService_GetUser(repo, w, id, out) ==
    UserRepository_FindUserByID(repo, w, id, out)

UserService_CreateUser(repo, w, ref, out) ==
    UserRepository_SaveUser(repo, w, ref, out)

\* ------------------------------------------------- the state machine

NoPrev == [ref |-> NilRef, user |-> NoUser]
NoCall == [op |-> "none", via |-> "none", arg |-> 0, out |-> "ok",
           pre |-> EmptyWorld, ret |-> RetNil(Nil), stmts |-> 0, prev |-> NoPrev]

\* the successful save, if any, that the previous step was
PrevSave ==
    IF last.op = "SaveUser" /\ last.ret.err = Nil
    THEN [ref |-> last.arg, user |-> last.pre.heap[last.arg]]
    ELSE NoPrev

\* the round-trip outcomes an implementation can meet
Outcomes(repo) == IF repo = "mock" THEN {"ok"} ELSE DBOutcomes

\* install the result of a call
Return(op, via, arg, out, res) ==
    /\ heap' = res.w.heap
    /\ Users' = res.w.Users
    /\ Err' = res.w.Err
    /\ rows' = res.w.rows
    /\ seq' = res.w.seq
    /\ last' = [op |-> op, via |-> via, arg |-> arg, out |-> out, pre |-> World,
                ret |-> res.ret, stmts |-> res.stmts,
                prev |-> IF op = "FindUserByID" THEN PrevSave ELSE NoPrev]
    /\ UNCHANGED Repo

Init ==
    /\ Repo \in Impls
    /\ heap = <<>>
    /\ Users = EmptyMap
    /\ Err = Nil
    /\ rows = EmptyMap
    /\ seq = 1
    /\ last = NoCall

\* the caller builds a User: &repository.User{ID: .., Name: .., Email: ..}
NewUser ==
    /\ Len(heap) < MaxRefs
    /\ \E id \in IDs, n \in Names, e \in Emails :
          heap' = Append(heap, [ID |-> id, Name |-> n, Email |-> e])
    /\ last' = NoCall
    /\ UNCHANGED <<Repo, Users, Err, rows, seq>>

\* the caller writes a field of a User it holds
SetID ==
    /\ \E r \in DOMAIN heap, id \in IDs :
          /\ heap[r].ID # id
          /\ heap' = [heap EXCEPT ![r].ID = id]
    /\ last' = NoCall
    /\ UNCHANGED <<Repo, Users, Err, rows, seq>>

SetName ==
    /\ \E r \in DOMAIN heap, n \in Names :
          /\ heap[r].Name # n
          /\ heap' = [heap EXCEPT ![r].Name = n]
    /\ last' = NoCall
    /\ UNCHANGED <<Repo, Users, Err, rows, seq>>

\* a test injects or clears the error of the in-memory repository
SetErr ==
    /\ Repo = "mock"
    /\ \E e \in InjErrs \cup {Nil} :
          /\ Err # e
          /\ Err' = e
    /\ last' = NoCall
    /\ UNCHANGED <<Repo, heap, Users, rows, seq>>

MockFindUserByID ==
    /\ Repo = "mock"
    /\ \E id \in IDs :
          Return("FindUserByID", "direct", id, "ok",
                 MockUserRepository_FindUserByID(World, id))

MockSaveUser ==
    /\ Repo = "mock"
    /\ \E r \in DOMAIN heap :
          Return("SaveUser", "direct", r, "ok",
                 MockUserRepository_SaveUser(World, r))

PgFindUserByID ==
    /\ Repo = "postgres"
    /\ \E id \in IDs \cup (1..MaxSeq), out \in DBOutcomes :
          Return("FindUserByID", "direct", id, out,
                 PostgresUserRepository_FindUserByID(World, id, out))

PgSaveUser ==
    /\ Repo = "postgres"
    /\ seq <= MaxSeq
    /\ \E r \in DOMAIN heap, out \in DBOutcomes :
          Return("SaveUser", "direct", r, out,
                 PostgresUserRepository_SaveUser(World, r, out))

GetUser ==
    \E id \in IDs \cup (IF Repo = "mock" THEN {} ELSE 1..MaxSeq), out \in Outcomes(Repo) :
        Return("FindUserByID", "service", id, out,
               UserService_GetUser(Repo, World, id, out))

CreateUser ==
    /\ Repo = "postgres" => seq <= MaxSeq
    /\ \E r \in DOMAIN heap, out \in Outcomes(Repo) :
          Return("SaveUser", "service", r, out,
                 UserService_CreateUser(Repo, World, r, out))

Next ==
    \/ NewUser
    \/ SetID
    \/ SetName
    \/ SetErr
    \/ MockFindUserByID
    \/ MockSaveUser
    \/ PgFindUserByID
    \/ PgSaveUser
    \/ GetUser
    \/ CreateUser

Spec == Init /\ [][Next]_vars

\* ------------------------------------------------- properties

IsFind == last.op = "FindUserByID"
IsSave == last.op = "SaveUser"
\* the User the last call was handed, as it was before the call
ArgBefore == last.pre.heap[last.arg]

\* C1: in the in-memory repository with no injected error, findByID of an id
\* that is not a key of the store returns the NotFound error and a nil User.
C1_AbsentIdNotFound ==
    (Repo = "mock" /\ IsFind /\ last.pre.Err = Nil
        /\ last.arg \notin DOMAIN last.pre.Users)
    => /\ last.ret.err = ErrNotFound
       /\ last.ret.ref = NilRef
       /\ last.ret.user = NoUser

\* an absent id is looked up in a store that already holds another user
C1_Witness ==
    /\ Repo = "mock" /\ IsFind /\ last.pre.Err = Nil
    /\ last.arg \notin DOMAIN last.pre.Users
    /\ DOMAIN last.pre.Users # {}
    /\ last.ret.err = ErrNotFound

\* C2: in the in-memory repository with no injected error, a successful
\* save(u) followed at once by findByID(u.id) returns no error and the User
\* that was saved: the same reference, with the id, name and email it had
\* when it was handed to save.
C2_SaveThenFind ==
    (Repo = "mock" /\ IsFind /\ last.prev.ref # NilRef
        /\ last.arg = last.prev.user.ID)
    => /\ last.ret.err = Nil
       /\ last.ret.ref = last.prev.ref
       /\ last.ret.user.ID = last.prev.user.ID
       /\ last.ret.user.Name = last.prev.user.Name
       /\ last.ret.user.Email = last.prev.user.Email

\* a saved user is found again in a store that holds two entries
C2_Witness ==
    /\ Repo = "mock" /\ IsFind /\ last.prev.ref # NilRef
    /\ last.arg = last.prev.user.ID
    /\ Cardinality(DOMAIN Users) = 2
    /\ last.ret.ref = last.prev.ref

\* C3: while an error E is injected into the in-memory repository, every
\* findByID and every save returns exactly E and no User, whatever the store
\* holds.
C3_InjectedErrorReturned ==
    (Repo = "mock" /\ (IsFind \/ IsSave) /\ last.pre.Err # Nil)
    => /\ last.ret.err = last.pre.Err
       /\ last.ret.ref = NilRef
       /\ last.ret.user = NoUser

\* with an error injected, an absent id is looked up in a non-empty store
C3_Witness ==
    /\ Repo = "mock" /\ IsFind /\ last.pre.Err \in InjErrs
    /\ last.arg \notin DOMAIN last.pre.Users
    /\ DOMAIN last.pre.Users # {}
    /\ last.ret.err = last.pre.Err

\* C4: a save made while an error is injected leaves the in-memory store as
\* it was: same keys, same entries, same User objects, and with the error
\* cleared findByID answers every id as it did before the failed save.
C4_FailedSaveKeepsStore ==
    (Repo = "mock" /\ IsSave /\ last.pre.Err # Nil)
    => /\ DOMAIN Users = DOMAIN last.pre.Users
       /\ \A k \in DOMAIN Users : Users[k] = last.pre.Users[k]
       /\ heap = last.pre.heap
       /\ \A id \in IDs :
             MockUserRepository_FindUserByID([World EXCEPT !.Err = Nil], id).ret
             = MockUserRepository_FindUserByID([last.pre EXCEPT !.Err = Nil], id).ret

\* a failed save of a user whose id is not yet a key of a non-empty store
C4_Witness ==
    /\ Repo = "mock" /\ IsSave /\ last.pre.Err \in InjErrs
    /\ ArgBefore.ID \notin DOMAIN Users
    /\ DOMAIN Users # {}
    /\ last.ret.err = last.pre.Err

\* C5: a call through the Service returns what the repository's own
\* operation returns on the same state and input, and leaves the repository
\* and the passed User in the state that operation leaves them in.
C5_ServicePassThrough ==
    (last.via = "service")
    => LET direct == IF IsFind
                     THEN UserRepository_FindUserByID(Repo, last.pre, last.arg, last.out)
                     ELSE UserRepository_SaveUser(Repo, last.pre, last.arg, last.out)
       IN /\ last.ret = direct.ret
          /\ World = direct.w
          /\ last.stmts = direct.stmts

\* the Service finds a stored user under id zero
C5_Witness ==
    /\ last.via = "service" /\ IsFind
    /\ last.arg = 0
    /\ last.ret.err = Nil

\* C6: the relational findByID turns the store's "no rows" into the error the
\* in-memory repository returns for an absent id, returns any other query
\* failure unchanged, and returns no User in either case.
C6_NotFoundParity ==
    (Repo = "postgres" /\ IsFind)
    => /\ (last.out = "ok" /\ last.arg \notin DOMAIN last.pre.rows)
            => /\ last.ret.err = MockUserRepository_FindUserByID(EmptyWorld, last.arg).ret.err
               /\ last.ret.err = ErrNotFound
               /\ last.ret.ref = NilRef
       /\ (last.out # "ok")
            => /\ last.ret.err = last.out
               /\ last.ret.ref = NilRef

\* the table holds a row, and another id is queried
C6_Witness ==
    /\ Repo = "postgres" /\ IsFind /\ last.out = "ok"
    /\ last.arg \notin DOMAIN last.pre.rows
    /\ DOMAIN last.pre.rows # {}
    /\ last.ret.err = ErrNotFound

\* C7 as stated: in every implementation a successful save of a User whose
\* id is zero leaves an assigned (non-zero) id in the passed User.
C7_FirstSaveAssignsId ==
    (IsSave /\ last.ret.err = Nil /\ ArgBefore.ID = 0)
    => heap[last.arg].ID # 0

\* C7 amended: a successful save of a User whose id is zero writes the id of
\* the inserted row into the passed User in the relational repository; the
\* in-memory repository assigns nothing, the User keeps id zero and is
\* stored under key zero.
C7_FirstSaveByImplementation ==
    (IsSave /\ last.ret.err = Nil /\ ArgBefore.ID = 0)
    => IF Repo = "postgres"
       THEN /\ heap[last.arg].ID = last.pre.seq
            /\ heap[last.arg].ID \in DOMAIN rows \ DOMAIN last.pre.rows
       ELSE /\ heap[last.arg].ID = 0
            /\ 0 \in DOMAIN Users
            /\ Users[0] = last.arg

\* the relational repository saved a User that had id zero
C7_Witness ==
    /\ Repo = "postgres" /\ IsSave /\ last.ret.err = Nil
    /\ ArgBefore.ID = 0
    /\ heap[last.arg].ID \in DOMAIN rows

\* C8: every persisted User carries the id it was persisted under, and no
\* two persisted records carry the same id.
C8_IdImmutableAndUnique ==
    /\ \A k \in DOMAIN Users : heap[Users[k]].ID = k
    /\ \A j, k \in DOMAIN Users : j # k => heap[Users[j]].ID # heap[Users[k]].ID
    /\ (Repo = "postgres" /\ IsSave /\ last.ret.err = Nil
           /\ ArgBefore.ID \in DOMAIN last.pre.rows)
       => heap[last.arg].ID = ArgBefore.ID

\* C9: the relational save issues one insert of the user's name and email; on
\* success the passed User's id is the id of the one new row, its name and
\* email are as before, and a store failure is returned unchanged.
C9_PgSaveOneInsert ==
    (Repo = "postgres" /\ IsSave)
    => /\ last.stmts = 1
       /\ last.ret.err = Nil
            => /\ DOMAIN rows = DOMAIN last.pre.rows \cup {heap[last.arg].ID}
               /\ heap[last.arg].ID \notin DOMAIN last.pre.rows
               /\ rows[heap[last.arg].ID].Name = ArgBefore.Name
               /\ rows[heap[last.arg].ID].Email = ArgBefore.Email
               /\ \A k \in DOMAIN last.pre.rows : rows[k] = last.pre.rows[k]
               /\ heap[last.arg].Name = ArgBefore.Name
               /\ heap[last.arg].Email = ArgBefore.Email
       /\ last.out # "ok"
            => /\ last.ret.err = last.out
               /\ rows = last.pre.rows

\* a second user is inserted successfully
C9_Witness ==
    /\ Repo = "postgres" /\ IsSave /\ last.ret.err = Nil
    /\ DOMAIN last.pre.rows # {}
    /\ Cardinality(DOMAIN rows) = 2

\* C10: with no injected error the in-memory save sets exactly the entry
\* keyed by the user's own id to the passed User and leaves every other
\* entry, the User objects and the injected error as they were, so a save
\* into an empty store leaves one entry; findByID changes nothing.
C10_SaveFrame ==
    (Repo = "mock")
    => /\ (IsSave /\ last.pre.Err = Nil)
            => /\ DOMAIN Users = DOMAIN last.pre.Users \cup {ArgBefore.ID}
               /\ Users[ArgBefore.ID] = last.arg
               /\ \A k \in DOMAIN last.pre.Users \ {ArgBefore.ID} :
                     Users[k] = last.pre.Users[k]
               /\ (DOMAIN last.pre.Users = {}) => Cardinality(DOMAIN Users) = 1
               /\ heap = last.pre.heap
               /\ Err = last.pre.Err
               /\ last.ret.err = Nil
       /\ IsFind
            => /\ Users = last.pre.Users
               /\ Err = last.pre.Err
               /\ heap = last.pre.heap

\* a save replaces the entry of its id while another entry is in the store
C10_Witness ==
    /\ Repo = "mock" /\ IsSave /\ last.pre.Err = Nil
    /\ ArgBefore.ID \in DOMAIN last.pre.Users
    /\ last.pre.Users[ArgBefore.ID] # last.arg
    /\ Cardinality(DOMAIN last.pre.Users) = 2

====
